---- MODULE Spec2Model ----
(***************************************************************************)
(* Model of the Icewheel Energy Key Beacon HTTP function (src/index.js):   *)
(* the key resolver, the request dispatcher `beacon`, and the fan-out of   *)
(* per-region partner calls joined by Promise.allSettled.                  *)
(*                                                                         *)
(* Text is modelled as a sequence of one-character strings, so that the    *)
(* string operations of the source (replace, trim, regular expressions,    *)
(* base64 decoding) are computed rather than assumed.                      *)
(***************************************************************************)
EXTENDS Integers, Sequences, FiniteSets, TLC

\* ------------------------------------------------------------------ values

\* JavaScript `undefined`, comparable with any text value.
Undefined == <<"#undefined">>

\* JavaScript truthiness of a text-or-undefined value: '' and undefined are falsy.
Truthy(v) == v # Undefined /\ v # <<>>

\* a || b on text-or-undefined values
OrElse(a, b) == IF Truthy(a) THEN a ELSE b

\* ------------------------------------------------------------------ characters

Whitespace == {" ", "\n", "\t", "\r"}

UpperCase ==
    {"A","B","C","D","E","F","G","H","I","J","K","L","M",
     "N","O","P","Q","R","S","T","U","V","W","X","Y","Z"}

LowerCase ==
    {"a","b","c","d","e","f","g","h","i","j","k","l","m",
     "n","o","p","q","r","s","t","u","v","w","x","y","z"}

Digits == {"0","1","2","3","4","5","6","7","8","9"}

\* the regular expression class \w
WordChars == UpperCase \cup LowerCase \cup Digits \cup {"_"}

AsciiPrintable ==
    <<" ","!","\"","#","$","%","&","'","(",")","*","+",",","-",".","/","0","1","2","3","4","5",
      "6","7","8","9",":",";","<","=",">","?","@","A","B","C","D","E","F","G","H","I","J","K",
      "L","M","N","O","P","Q","R","S","T","U","V","W","X","Y","Z","[","\\","]","^","_","U+0060","a",
      "b","c","d","e","f","g","h","i","j","k","l","m","n","o","p","q","r","s","t","u","v","w",
      "x","y","z","{","|","}","~">>

Base64Alphabet ==
    <<"A","B","C","D","E","F","G","H","I","J","K","L","M","N","O","P","Q","R","S","T","U","V",
      "W","X","Y","Z","a","b","c","d","e","f","g","h","i","j","k","l","m","n","o","p","q","r",
      "s","t","u","v","w","x","y","z","0","1","2","3","4","5","6","7","8","9","+","/">>

\* Does text s carry text p at position i ?
StartsAt(s, p, i) ==
    /\ i >= 1
    /\ i + Len(p) - 1 <= Len(s)
    /\ \A k \in 1..Len(p) : s[i + k - 1] = p[k]

\* ------------------------------------------------------------------ key sources

\* The key compiled into resolvePublicKey.
IN_SOURCE_PUBLIC_KEY ==
    <<"\n","-","-","-","-","-","B","E","G","I","N"," ","P","U","B","L","I","C"," ","K","E","Y",
      "-","-","-","-","-","\n","M","F","k","w","E","w","Y","H","K","o","Z","I","z","j","0","C",
      "A","Q","Y","I","K","o","Z","I","z","j","0","D","A","Q","c","D","Q","g","A","E","E","/",
      "5","0","8","A","4","2","d","9","+","+","I","F","6","2","A","/","5","N","f","K","q","Q",
      "9","w","J","/","\n","3","W","P","E","a","N","b","F","A","L","v","3","j","l","0","c","W",
      "8","N","4","x","8","2","+","3","c","N","e","r","3","a","L","z","8","V","j","P","Y","f",
      "2","d","2","c","6","z","1","g","I","4","a","/","s","B","C","H","w","Z","w","=","=","\n",
      "-","-","-","-","-","E","N","D"," ","P","U","B","L","I","C"," ","K","E","Y","-","-","-",
      "-","-","\n">>

\* String.prototype.replace(/\\n/g, '\n'): every backslash followed by n becomes a
\* newline. A match cannot overlap another, so each position is decided by its
\* neighbours: the backslash of a match becomes the newline, its n is dropped.
markEscapes(s) ==
    [k \in 1..Len(s) |->
        IF k < Len(s) /\ s[k] = "\\" /\ s[k + 1] = "n"
        THEN [c |-> "\n", keep |-> TRUE]
        ELSE IF k > 1 /\ s[k - 1] = "\\" /\ s[k] = "n"
             THEN [c |-> s[k], keep |-> FALSE]
             ELSE [c |-> s[k], keep |-> TRUE]]

keptChars(marked) ==
    LET Kept(m) == m.keep
    IN  SelectSeq(marked, Kept)

charsOf(kept) == [k \in 1..Len(kept) |-> kept[k].c]

unescapeNewlines(s) == charsOf(keptChars(markEscapes(s)))

\* String.prototype.trim: the text between its first and its last character that is
\* not whitespace.
trim(s) ==
    IF \A k \in 1..Len(s) : s[k] \in Whitespace THEN <<>>
    ELSE SubSeq(s,
                CHOOSE k \in 1..Len(s) :
                    s[k] \notin Whitespace /\ \A j \in 1..(k - 1) : s[j] \in Whitespace,
                CHOOSE k \in 1..Len(s) :
                    s[k] \notin Whitespace /\ \A j \in (k + 1)..Len(s) : s[j] \in Whitespace)

\* the last line of normalizePem
nonEmpty(unescaped) == IF Len(unescaped) > 0 THEN unescaped ELSE Undefined

normalizePem(input) ==
    IF ~Truthy(input) THEN Undefined
    ELSE nonEmpty(trim(unescapeNewlines(input)))

\* The 6-bit value of a base64 character (the URL-safe - and _ are accepted too),
\* or -1 for a character that is not one.
sextet(c) ==
    IF c = "-" THEN 62
    ELSE IF c = "_" THEN 63
    ELSE IF \E k \in 1..Len(Base64Alphabet) : Base64Alphabet[k] = c
         THEN (CHOOSE k \in 1..Len(Base64Alphabet) : Base64Alphabet[k] = c) - 1
         ELSE -1

\* The part of a base64 text that is decoded: decoding stops at the first padding
\* character.
beforePadding(s) ==
    IF \A k \in 1..Len(s) : s[k] # "=" THEN s
    ELSE SubSeq(s, 1, (CHOOSE k \in 1..Len(s) :
                          s[k] = "=" /\ \A j \in 1..(k - 1) : s[j] # "=") - 1)

\* Characters outside the alphabet are skipped.
codedChars(s) ==
    LET InAlphabet(c) == sextet(c) >= 0
    IN  SelectSeq(s, InAlphabet)

sextetsOf(coded) == [k \in 1..Len(coded) |-> sextet(coded[k])]

\* The sextets of a base64 text.
sextets(s) == sextetsOf(codedChars(beforePadding(s)))

\* Buffer.from(input, 'base64'): three bytes of every four sextets; a remainder of
\* three sextets gives two bytes, of two gives one, of one gives none.
base64Bytes(q) ==
    LET rest == Len(q) % 4
        n == 3 * (Len(q) \div 4) + (IF rest = 3 THEN 2 ELSE IF rest = 2 THEN 1 ELSE 0)
    IN  [k \in 1..n |->
            LET b == 4 * ((k - 1) \div 3)
            IN  IF (k - 1) % 3 = 0 THEN q[b + 1] * 4 + q[b + 2] \div 16
                ELSE IF (k - 1) % 3 = 1 THEN (q[b + 2] % 16) * 16 + q[b + 3] \div 4
                ELSE (q[b + 3] % 4) * 64 + q[b + 4]]

\* Buffer.toString('utf8') on one byte: ASCII is itself; any other byte is shown as
\* the replacement character.
byteChar(b) ==
    IF b >= 32 /\ b <= 126 THEN AsciiPrintable[b - 31]
    ELSE IF b = 10 THEN "\n"
    ELSE IF b = 9 THEN "\t"
    ELSE IF b = 13 THEN "\r"
    ELSE "U+FFFD"

bytesToText(bytes) == [k \in 1..Len(bytes) |-> byteChar(bytes[k])]

\* Buffer.from(input, 'base64').toString('utf8')
decodeBase64(input) == bytesToText(base64Bytes(sextets(input)))

BeginPrefix == <<"-","-","-","-","-","B","E","G","I","N"," ">>
FiveDashes == <<"-","-","-","-","-">>

\* /-----BEGIN [A-Z ]+-----/.test(s)
hasBeginMarker(s) ==
    \E i \in 1..Len(s) :
        /\ StartsAt(s, BeginPrefix, i)
        /\ \E k \in 1..Len(s) :
              /\ \A j \in 1..k :
                    /\ i + Len(BeginPrefix) + j - 1 <= Len(s)
                    /\ s[i + Len(BeginPrefix) + j - 1] \in UpperCase \cup {" "}
              /\ StartsAt(s, FiveDashes, i + Len(BeginPrefix) + k)

\* the test of tryDecodeBase64 on the normalized text
withMarker(normalized) ==
    IF Truthy(normalized) /\ hasBeginMarker(normalized) THEN normalized ELSE Undefined

tryDecodeBase64(input) ==
    IF ~Truthy(input) THEN Undefined
    ELSE withMarker(normalizePem(decodeBase64(input)))

\* The files of the host: two readable key files; every other path fails to open.
PathKeyFile == <<"/","k","e","y",".","p","e","m">>
PathBlankFile == <<"/","b","l","a","n","k">>
PathMissing == <<"/","n","o","n","e">>

FilePem ==
    <<"\n","-","-","-","-","-","B","E","G","I","N"," ","F","-","-","-","-","-","\n","Z","\n",
      "-","-","-","-","-","E","N","D"," ","F","-","-","-","-","-","\n","\n">>

FileBlank == <<" ","\n","\n">>

\* readFileSync(path, 'utf8'): the text of the file, or an exception.
readFileSync(path) ==
    IF path = PathKeyFile THEN [threw |-> FALSE, data |-> FilePem]
    ELSE IF path = PathBlankFile THEN [threw |-> FALSE, data |-> FileBlank]
    ELSE [threw |-> TRUE, data |-> <<>>]

tryReadFile(path) ==
    IF ~Truthy(path) THEN Undefined
    ELSE IF readFileSync(path).threw THEN Undefined
         ELSE normalizePem(readFileSync(path).data)

\* resolvePublicKey reading the base64 source after the file
resolvePublicKeyFileFirst(e) ==
    LET fromEnv == OrElse(normalizePem(e.TESLA_PUBLIC_KEY),
                     OrElse(tryReadFile(e.TESLA_PUBLIC_KEY_FILE),
                            tryDecodeBase64(e.TESLA_PUBLIC_KEY_BASE64)))
    IN  IF Truthy(fromEnv) THEN fromEnv
        ELSE OrElse(normalizePem(IN_SOURCE_PUBLIC_KEY), Undefined)

\* resolvePublicKey without the compiled-in key
resolvePublicKeyNoFallback(e) ==
    OrElse(normalizePem(e.TESLA_PUBLIC_KEY),
           OrElse(tryDecodeBase64(e.TESLA_PUBLIC_KEY_BASE64),
                  tryReadFile(e.TESLA_PUBLIC_KEY_FILE)))

\* resolvePublicKey on the process environment e
resolvePublicKey(e) ==
    LET fromEnv == OrElse(normalizePem(e.TESLA_PUBLIC_KEY),
                     OrElse(tryDecodeBase64(e.TESLA_PUBLIC_KEY_BASE64),
                            tryReadFile(e.TESLA_PUBLIC_KEY_FILE)))
    IN  IF Truthy(fromEnv) THEN fromEnv
        ELSE OrElse(normalizePem(IN_SOURCE_PUBLIC_KEY), Undefined)

\* ------------------------------------------------------------------ configurations

RawEscapedPem ==
    <<" ","-","-","-","-","-","B","E","G","I","N"," ","K","-","-","-","-","-","\\","n","A","B",
      "\\","n","-","-","-","-","-","E","N","D"," ","K","-","-","-","-","-","\\","n">>

RawBlank ==
    <<" ","\\","n"," ","\n">>

\* base64 of "-----BEGIN EC KEY-----\\nQ\n-----END EC KEY-----\n"
B64Pem ==
    <<"L","S","0","t","L","S","1","C","R","U","d","J","T","i","B","F","Q","y","B","L","R","V",
      "k","t","L","S","0","t","L","V","x","u","U","Q","o","t","L","S","0","t","L","U","V","O",
      "R","C","B","F","Q","y","B","L","R","V","k","t","L","S","0","t","L","Q","o","=">>

\* base64 of "hello key\n"
B64NoMarker ==
    <<"a","G","V","s","b","G","8","g","a","2","V","5","C","g","=","=">>

\* base64 of "-----BEGIN key-----"
B64LowerMarker ==
    <<"L","S","0","t","L","S","1","C","R","U","d","J","T","i","B","r","Z","X","k","t","L","S",
      "0","t","L","Q","=","=">>

B64Garbage == <<"!","!","=","A">>

\* a raw value with the characters escapeHtml replaces
RawMarkup == <<"<", "k", "&", "'", "\"", ">">>

RawValues == {Undefined, <<>>, RawBlank, RawEscapedPem, RawMarkup}
Base64Values == {Undefined, B64Pem, B64NoMarker, B64LowerMarker, B64Garbage}
FileValues == {Undefined, PathKeyFile, PathBlankFile, PathMissing}

Env(raw, b64, file) ==
    [TESLA_PUBLIC_KEY |-> raw, TESLA_PUBLIC_KEY_BASE64 |-> b64,
     TESLA_PUBLIC_KEY_FILE |-> file]

\* every combination of the three key sources
KeyEnvs == {Env(a, b, f) : a \in RawValues, b \in Base64Values, f \in FileValues}

\* the configurations the dispatcher is run under
Envs == {Env(Undefined, Undefined, Undefined), Env(RawEscapedPem, Undefined, Undefined)}

\* ------------------------------------------------------------------ partner API

na == <<"n","a">>
eu == <<"e","u">>
\* a region code outside the region table
xx == <<"x","x">>

RegionCodes == {na, eu, xx}

\* REGION_URLS[region] of a code outside the table
UndefinedUrl == "undefined"

REGION_URLS(region) ==
    IF region = na THEN "https://fleet-api.prd.na.vn.cloud.tesla.com"
    ELSE IF region = eu THEN "https://fleet-api.prd.eu.vn.cloud.tesla.com"
    ELSE UndefinedUrl

TESLA_AUTH_URL == "https://fleet-auth.prd.vn.cloud.tesla.com/oauth2/v3/token"

\* A JSON value the partner sends: an object with optional error and msg members,
\* or null. kind "absent" stands for a member that is not there.
Data(kind, error, msg) == [kind |-> kind, error |-> error, msg |-> msg]
DataEmpty == Data("object", Undefined, Undefined)
DataDenied == Data("object", <<"d","e","n","i","e","d">>, Undefined)
DataNull == Data("null", Undefined, Undefined)
NoData == Data("absent", Undefined, Undefined)

\* What an outbound call comes back with: an HTTP response (status, body) or a
\* failure of the call itself, with the message of the error fetch rejects with.
Answer(kind, status, json, data, message) ==
    [kind |-> kind, status |-> status, json |-> json, data |-> data, message |-> message]

NetworkFailureMessage == <<"s","o","c","k","e","t"," ","h","a","n","g"," ","u","p">>

PartnerAnswers ==
    {Answer("response", 200, TRUE, DataEmpty, <<>>),
     Answer("response", 200, FALSE, NoData, <<>>),
     Answer("response", 403, TRUE, DataDenied, <<>>),
     Answer("response", 500, TRUE, DataNull, <<>>),
     Answer("failure", 0, FALSE, NoData, NetworkFailureMessage)}

\* apiResponse.ok
responseOk(a) == a.status >= 200 /\ a.status <= 299

\* await apiResponse.json().catch(() => ({}))
responseJson(a) == IF a.json THEN a.data ELSE DataEmpty

Url(base, path, domain) == [base |-> base, path |-> path, domain |-> domain]
NoUrl == Url("", "", Undefined)

\* An outbound call: fetch(url, options); state is "inflight" until it comes back,
\* then "returned" with the HTTP status it came back with, or "failed".
Call(url, method, bearer, form, state, status) ==
    [url |-> url, method |-> method, bearer |-> bearer, form |-> form, state |-> state,
     status |-> status]

\* The call once answer a came back.
answered(call, a) ==
    IF a.kind = "failure" THEN [call EXCEPT !.state = "failed"]
    ELSE [call EXCEPT !.state = "returned", !.status = a.status]

Form(clientId, clientSecret, domain) ==
    [client_id |-> clientId, client_secret |-> clientSecret, domain |-> domain]

\* One element of `promises`: the async function run for one region.
Promise(region, state, call, data, url, message) ==
    [region |-> region, state |-> state, call |-> call, data |-> data, url |-> url,
     message |-> message]

MsgInvalidRegion == <<"I","n","v","a","l","i","d"," ","r","e","g","i","o","n",":"," ">>
MsgApiErrorFor == <<"A","P","I"," ","e","r","r","o","r"," ","f","o","r"," ">>
MsgUnknown == <<"U","n","k","n","o","w","n">>
\* the TypeError of reading a member of null
MsgNullData == <<"C","a","n","n","o","t"," ","r","e","a","d"," ","p","r","o","p","e","r","t","i","e","s"," ","o","f"," ","n","u","l","l"," ","(","r","e","a","d","i","n","g"," ","'","e","r","r","o","r","'",")">>

regionUrl(isRegister, region, domain) ==
    IF isRegister
    THEN Url(REGION_URLS(region), "/api/1/partner_accounts", Undefined)
    ELSE Url(REGION_URLS(region), "/api/1/partner_accounts/public_key", domain)

regionCall(isRegister, region, domain, token) ==
    Call(regionUrl(isRegister, region, domain),
         IF isRegister THEN "POST" ELSE "GET",
         token,
         Form(Undefined, Undefined, IF isRegister THEN domain ELSE Undefined),
         "inflight", 0)

\* regions.map(async (region) => ...) up to each function's first await: a code
\* outside the table rejects at once, any other has its call issued, in order.
mapRegions(isRegister, domain, token, regions) ==
    LET Known(region) == REGION_URLS(region) # UndefinedUrl
        known == SelectSeq(regions, Known)
    IN  [promises |->
            [i \in 1..Len(regions) |->
                IF Known(regions[i])
                THEN Promise(regions[i], "pending",
                             Len(SelectSeq(SubSeq(regions, 1, i), Known)),
                             NoData, regionUrl(isRegister, regions[i], domain), <<>>)
                ELSE Promise(regions[i], "rejected", 0, NoData, NoUrl,
                             MsgInvalidRegion \o regions[i])],
         calls |->
            [k \in 1..Len(known) |-> regionCall(isRegister, known[k], domain, token)]]

\* The rest of the async function of promise p once its call came back with a.
settleRegion(p, a) ==
    IF a.kind = "failure" THEN [p EXCEPT !.state = "rejected", !.message = a.message]
    ELSE IF responseOk(a)
         THEN [p EXCEPT !.state = "fulfilled", !.data = responseJson(a)]
         ELSE IF responseJson(a).kind = "null"
              THEN [p EXCEPT !.state = "rejected", !.message = MsgNullData]
              ELSE [p EXCEPT !.state = "rejected",
                             !.message = MsgApiErrorFor \o p.region \o <<":"," ">> \o
                                 OrElse(responseJson(a).error,
                                        OrElse(responseJson(a).msg, MsgUnknown))]

\* (message.match(/for (\w+)/) || [])[1]: the word after the first "for " that is
\* followed by a word character, or undefined.
matchForWord(m) ==
    LET hits == {i \in 1..Len(m) :
                    /\ StartsAt(m, <<"f","o","r"," ">>, i)
                    /\ i + 4 <= Len(m)
                    /\ m[i + 4] \in WordChars}
    IN  IF hits = {} THEN Undefined
        ELSE LET i == CHOOSE h \in hits : \A j \in hits : h <= j
                 e == CHOOSE k \in (i + 4)..Len(m) :
                        /\ \A j \in (i + 4)..k : m[j] \in WordChars
                        /\ (k = Len(m) \/ m[k + 1] \notin WordChars)
             IN  SubSeq(m, i + 4, e)

RegionUnknown == <<"u","n","k","n","o","w","n">>

\* One entry of the aggregate: {status, value: {region, data, url}} when fulfilled,
\* {status, reason: {message}, value: {region}} when rejected.
Entry(status, region, data, url, message) ==
    [status |-> status, value |-> [region |-> region, data |-> data, url |-> url],
     reason |-> [message |-> message]]

formatEntry(p) ==
    IF p.state = "fulfilled"
    THEN Entry("fulfilled", p.region, p.data, p.url, Undefined)
    ELSE Entry("rejected", OrElse(matchForWord(p.message), RegionUnknown),
               NoData, NoUrl, p.message)

\* formatted keeping the fulfilled results only
formattedFulfilledOnly(promises) ==
    LET Fulfilled(p) == p.state = "fulfilled"
    IN  [i \in 1..Len(SelectSeq(promises, Fulfilled)) |->
            formatEntry(SelectSeq(promises, Fulfilled)[i])]

\* results.map(...) over the outcome of Promise.allSettled, which keeps the order
\* of `promises`.
formatted(promises) == [i \in 1..Len(promises) |-> formatEntry(promises[i])]

\* the join of Promise.all: over as soon as one promise rejects
allFulfilledOrOneRejected(promises) ==
    \/ \A i \in 1..Len(promises) : promises[i].state = "fulfilled"
    \/ \E i \in 1..Len(promises) : promises[i].state = "rejected"

\* the join of Promise.race: over as soon as one promise settled
firstSettled(promises) == \E i \in 1..Len(promises) : promises[i].state # "pending"

\* Promise.allSettled(promises) resolves once no promise is pending.
allSettled(promises) == \A i \in 1..Len(promises) : promises[i].state # "pending"

\* ------------------------------------------------------------------ responses

HeaderNames ==
    {"Content-Type", "Access-Control-Allow-Origin", "Access-Control-Allow-Methods",
     "Access-Control-Allow-Headers"}

NoHeader == ""

\* A JSON document: {error}, an array of entries, or partner data.
Json(t, error, items, data) == [t |-> t, error |-> error, items |-> items, data |-> data]
NoJson == Json("none", Undefined, <<>>, NoData)
JsonError(message) == Json("error", message, <<>>, NoData)
JsonArray(items) == Json("array", Undefined, items, NoData)
JsonData(data) == Json("data", Undefined, <<>>, data)

Html(title, configured, key) == [title |-> title, configured |-> configured, key |-> key]
NoHtml == Html("", FALSE, <<>>)

ResponseBody(type, text, json, html) ==
    [type |-> type, text |-> text, json |-> json, html |-> html]

\* The Express response before the handler touches it.
FreshResponse ==
    [status |-> 200, headers |-> [h \in HeaderNames |-> NoHeader],
     body |-> ResponseBody("none", <<>>, NoJson, NoHtml), sends |-> 0]

\* sendJson without the cross-origin headers
sendJsonNoCors(res, status, body) ==
    [res EXCEPT !.status = status,
                !.headers["Content-Type"] = "application/json",
                !.body = ResponseBody("json", <<>>, body, NoHtml),
                !.sends = @ + 1]

sendJson(res, status, body) ==
    [res EXCEPT !.status = status,
                !.headers["Content-Type"] = "application/json",
                !.headers["Access-Control-Allow-Origin"] = "*",
                !.headers["Access-Control-Allow-Methods"] = "GET, POST, OPTIONS",
                !.headers["Access-Control-Allow-Headers"] = "Content-Type, Authorization",
                !.body = ResponseBody("json", <<>>, body, NoHtml),
                !.sends = @ + 1]

TextPlain == "text/plain; charset=utf-8"

TextBody(text) == ResponseBody("text", text, NoJson, NoHtml)
HtmlBody(html) == ResponseBody("html", <<>>, NoJson, html)

sendText(res, status, body, contentType) ==
    [res EXCEPT !.status = status,
                !.headers["Content-Type"] = contentType,
                !.headers["Access-Control-Allow-Origin"] = "*",
                !.headers["Access-Control-Allow-Methods"] = "GET, POST, OPTIONS",
                !.headers["Access-Control-Allow-Headers"] = "Content-Type, Authorization",
                !.body = body,
                !.sends = @ + 1]

sendHtml(res, status, html) ==
    sendText(res, status, HtmlBody(html), "text/html; charset=utf-8")

\* the OPTIONS branch without res.status(204)
sendOptionsDefaultStatus(res) ==
    [res EXCEPT !.headers["Access-Control-Allow-Origin"] = "*",
                !.headers["Access-Control-Allow-Methods"] = "GET, POST, OPTIONS",
                !.headers["Access-Control-Allow-Headers"] = "Content-Type, Authorization",
                !.body = TextBody(<<>>),
                !.sends = @ + 1]

\* the OPTIONS branch of beacon
sendOptions(res) ==
    [res EXCEPT !.headers["Access-Control-Allow-Origin"] = "*",
                !.headers["Access-Control-Allow-Methods"] = "GET, POST, OPTIONS",
                !.headers["Access-Control-Allow-Headers"] = "Content-Type, Authorization",
                !.status = 204,
                !.body = TextBody(<<>>),
                !.sends = @ + 1]

\* escapeHtml: each of & < > " ' becomes its entity (one element of the text).
escapeHtml(s) ==
    [k \in 1..Len(s) |->
        IF s[k] = "&" THEN "&amp;"
        ELSE IF s[k] = "<" THEN "&lt;"
        ELSE IF s[k] = ">" THEN "&gt;"
        ELSE IF s[k] = "\"" THEN "&quot;"
        ELSE IF s[k] = "'" THEN "&#39;"
        ELSE s[k]]

\* renderIndexHtml: the page, of which the model keeps the title and the key block.
renderIndexHtml(publicKey) ==
    IF Truthy(publicKey)
    THEN Html("Icewheel Energy Key Beacon", TRUE, escapeHtml(publicKey))
    ELSE Html("Icewheel Energy Key Beacon", FALSE, <<>>)

\* ------------------------------------------------------------------ requests

Methods == {"GET", "POST", "OPTIONS", "PUT"}

\* A request target: the segments of its path ("/a/b" is <<"a", "b">>, "/" is <<"">>)
\* and whether a query string follows.
Target(segments, query) == [segments |-> segments, query |-> query]

WellKnownPath == <<".well-known", "appspecific", "com.tesla.3p.public-key.pem">>

Targets ==
    {Target(<<"">>, FALSE), Target(<<"index.html">>, FALSE),
     Target(<<"docs", "index.html">>, TRUE),
     Target(WellKnownPath, FALSE), Target(WellKnownPath, TRUE),
     Target(<<"get-token">>, FALSE), Target(<<"register">>, FALSE),
     Target(<<"verify">>, TRUE), Target(<<"foo", "bar">>, FALSE)}

\* (req.path || req.url || '').split('?')[0]
pathOf(target) == target.segments

\* path.endsWith('/' + name)
endsWith(path, name) == path[Len(path)] = name

\* The regions member of a body: undefined, a string, or an array of codes.
Regions(type, items) == [type |-> type, items |-> items]

\* req.body as the framework parsed it: an object with the members the handler
\* reads, null, or "unparsed" when the framework left the body on the stream.
Body(kind, clientId, clientSecret, domain, token, regions) ==
    [kind |-> kind, clientId |-> clientId, clientSecret |-> clientSecret,
     domain |-> domain, token |-> token, regions |-> regions]

NoRegions == Regions("undefined", <<>>)
EmptyBody == Body("object", Undefined, Undefined, Undefined, Undefined, NoRegions)
NullBody == Body("null", Undefined, Undefined, Undefined, Undefined, NoRegions)
UnparsedBody == Body("unparsed", Undefined, Undefined, Undefined, Undefined, NoRegions)
\* what JSON.parse returns for a number: a value whose members are all undefined
ScalarBody == Body("scalar", Undefined, Undefined, Undefined, Undefined, NoRegions)
NotRead == Body("unread", Undefined, Undefined, Undefined, Undefined, NoRegions)

MaxRegions == 3

RegionLists == UNION {[1..n -> RegionCodes] : n \in 0..MaxRegions}

RegionsValues ==
    {NoRegions, Regions("string", <<na>>)} \cup {Regions("array", l) : l \in RegionLists}

ClientId == <<"i","d">>
ClientSecret == <<"s">>
Domain == <<"a",".","i","o">>
Token == <<"t","o","k">>

TokenBodies ==
    {Body("object", c, s, Undefined, Undefined, NoRegions) :
        c \in {Undefined, <<>>, ClientId}, s \in {Undefined, ClientSecret}}

RegisterBodies ==
    {Body("object", Undefined, Undefined, d, t, g) :
        d \in {Undefined, Domain}, t \in {Undefined, Token}, g \in RegionsValues}

Bodies == TokenBodies \cup RegisterBodies \cup {UnparsedBody}

Request(method, target, body) == [method |-> method, target |-> target, body |-> body]
NoRequest == Request("", Target(<<>>, FALSE), NotRead)

Requests == {Request(m, t, b) : m \in Methods, t \in Targets, b \in Bodies}

\* the requests that read the key
KeyRequests == {Request("GET", t, EmptyBody) : t \in Targets}

\* What the stream of an unparsed body delivers before it ends.
StreamTokenJson == <<"{","\"","c","l","i","e","n","t","I","d","\"",":","\"","i","d","\"",",","\"","c","l","i","e","n","t","S","e","c","r","e","t","\"",":","\"","s","\"","}">>
StreamTexts == {<<>>, <<"{">>, <<"{","}">>, <<"n","u","l","l">>, <<"7">>, StreamTokenJson}

\* JSON.parse on the texts above
JSONparse(text) ==
    IF text = <<"{","}">> THEN [threw |-> FALSE, value |-> EmptyBody]
    ELSE IF text = <<"n","u","l","l">> THEN [threw |-> FALSE, value |-> NullBody]
    ELSE IF text = <<"7">> THEN [threw |-> FALSE, value |-> ScalarBody]
    ELSE IF text = StreamTokenJson
         THEN [threw |-> FALSE,
               value |-> Body("object", ClientId, ClientSecret, Undefined, Undefined,
                              NoRegions)]
         ELSE [threw |-> TRUE, value |-> NotRead]

MsgInvalidJson == <<"I","n","v","a","l","i","d"," ","J","S","O","N"," ","b","o","d","y">>
MsgStreamError == <<"a","b","o","r","t","e","d">>
MsgTokenRequired == <<"c","l","i","e","n","t","I","d"," ","a","n","d"," ","c","l","i","e","n","t","S","e","c","r","e","t"," ","a","r","e"," ","r","e","q","u","i","r","e","d">>
MsgRegisterRequired == <<"D","o","m","a","i","n",","," ","t","o","k","e","n",","," ","a","n","d"," ","r","e","g","i","o","n","s"," ","a","r","e"," ","r","e","q","u","i","r","e","d">>
MsgNotFound == <<"N","o","t"," ","F","o","u","n","d">>
MsgKeyNotFound == <<"P","u","b","l","i","c"," ","k","e","y"," ","n","o","t"," ","f","o","u","n","d">>
\* the TypeError of destructuring null
MsgDestructureToken == <<"C","a","n","n","o","t"," ","d","e","s","t","r","u","c","t","u","r","e"," ","p","r","o","p","e","r","t","y"," ","'","c","l","i","e","n","t","I","d","'"," ","o","f"," ","'","b","o","d","y","'"," ","a","s"," ","i","t"," ","i","s"," ","n","u","l","l",".">>
MsgDestructureRegister == <<"C","a","n","n","o","t"," ","d","e","s","t","r","u","c","t","u","r","e"," ","p","r","o","p","e","r","t","y"," ","'","d","o","m","a","i","n","'"," ","o","f"," ","'","b","o","d","y","'"," ","a","s"," ","i","t"," ","i","s"," ","n","u","l","l",".">>

\* ------------------------------------------------------------------ the handler

\* pk of an invocation that has not called resolvePublicKey
NotResolved == <<"#not-resolved">>

\* Where one run of the handler's code leaves an invocation.
Outcome(p, r, k, b, ps, cs) ==
    [pc |-> p, res |-> r, pk |-> k, parsed |-> b, promises |-> ps, calls |-> cs]

Responded(r, b) == Outcome("done", r, NotResolved, b, <<>>, <<>>)

tokenCall(body) ==
    Call(Url(TESLA_AUTH_URL, "", Undefined), "POST", Undefined,
         Form(body.clientId, body.clientSecret, Undefined), "inflight", 0)

\* !clientId || !clientSecret
missingCredentials(body) == ~Truthy(body.clientId) \/ ~Truthy(body.clientSecret)

\* missingRegistration without the test for an empty array
missingRegistrationAllowingEmpty(body) ==
    \/ ~Truthy(body.domain)
    \/ ~Truthy(body.token)
    \/ body.regions.type # "array"

\* !domain || !token || !Array.isArray(regions) || regions.length === 0
missingRegistration(body) ==
    \/ ~Truthy(body.domain)
    \/ ~Truthy(body.token)
    \/ body.regions.type # "array"
    \/ Len(body.regions.items) = 0

\* the join answering 502 when a region was rejected
respondAggregateFailingFast(res, promises) ==
    IF \E i \in 1..Len(promises) : promises[i].state = "rejected"
    THEN sendJson(res, 502, JsonError(MsgUnknown))
    ELSE sendJson(res, 200, JsonArray(formatted(promises)))

\* The join: results = await Promise.allSettled(promises), formatted and sent.
respondAggregate(res, promises) == sendJson(res, 200, JsonArray(formatted(promises)))

\* beacon after `body = await parseJson(req)`, up to its next await or its response
routePost(rq, res, body) ==
    LET path == pathOf(rq.target)
    IN  IF endsWith(path, "get-token")
        THEN IF body.kind = "null"
             THEN Responded(sendJson(res, 500, JsonError(MsgDestructureToken)), body)
             ELSE IF missingCredentials(body)
                  THEN Responded(sendJson(res, 400, JsonError(MsgTokenRequired)), body)
                  ELSE Outcome("awaitToken", res, NotResolved, body, <<>>,
                               <<tokenCall(body)>>)
        ELSE IF endsWith(path, "register") \/ endsWith(path, "verify")
        THEN IF body.kind = "null"
             THEN Responded(sendJson(res, 500, JsonError(MsgDestructureRegister)), body)
             ELSE IF missingRegistration(body)
                  THEN Responded(sendJson(res, 400, JsonError(MsgRegisterRequired)), body)
                  ELSE LET m == mapRegions(endsWith(path, "register"), body.domain,
                                           body.token, body.regions.items)
                       IN  IF allSettled(m.promises)
                           THEN Outcome("done", respondAggregate(res, m.promises),
                                        NotResolved, body, m.promises, m.calls)
                           ELSE Outcome("awaitAll", res, NotResolved, body, m.promises,
                                        m.calls)
        ELSE Responded(sendText(res, 404, TextBody(MsgNotFound), TextPlain), body)

\* indexResponse rendering the page without the key it was given
indexResponseWithoutKey(res, key) ==
    Outcome("done", sendHtml(res, 200, renderIndexHtml(Undefined)), key, NotRead, <<>>,
            <<>>)

\* GET on / or .../index.html: the page around the resolved key
indexResponse(res, key) ==
    Outcome("done", sendHtml(res, 200, renderIndexHtml(key)), key, NotRead, <<>>, <<>>)

\* keyResponse sending the key with sendText's default content type
keyResponseAsPlainText(res, key) ==
    Outcome("done",
            IF Truthy(key)
            THEN sendText(res, 200, TextBody(key), TextPlain)
            ELSE sendText(res, 404, TextBody(MsgKeyNotFound), TextPlain),
            key, NotRead, <<>>, <<>>)

\* GET on the well-known path: pk = resolvePublicKey(), sent when there is one
keyResponse(res, key) ==
    Outcome("done",
            IF Truthy(key)
            THEN sendText(res, 200, TextBody(key), "application/x-pem-file")
            ELSE sendText(res, 404, TextBody(MsgKeyNotFound), TextPlain),
            key, NotRead, <<>>, <<>>)

\* beacon from its invocation to its first await or its response
beaconStart(e, rq, res) ==
    IF rq.method = "OPTIONS" THEN Responded(sendOptions(res), NotRead)
    ELSE IF /\ rq.method = "GET"
            /\ (pathOf(rq.target) = <<"">> \/ endsWith(pathOf(rq.target), "index.html"))
    THEN indexResponse(res, resolvePublicKey(e))
    ELSE IF rq.method = "GET" /\ pathOf(rq.target) = WellKnownPath
    THEN keyResponse(res, resolvePublicKey(e))
    ELSE IF rq.method = "POST"
    THEN IF rq.body.kind = "unparsed"
         THEN Outcome("awaitBody", res, NotResolved, NotRead, <<>>, <<>>)
         ELSE routePost(rq, res, rq.body)
    ELSE Responded(sendText(res, 404, TextBody(MsgNotFound), TextPlain), NotRead)

\* ------------------------------------------------------------------ state

VARIABLES
    env,        \* process.env: the three key sources
    pc,         \* per invocation of beacon: where it stands
    req,        \* per invocation: its request
    res,        \* per invocation: its response object
    pk,         \* per invocation: what resolvePublicKey returned to it
    parsed,     \* per invocation: the body parseJson resolved with
    promises,   \* per invocation: the per-region promises of register/verify
    calls,      \* per invocation: the outbound calls it issued
    given       \* per invocation: what its environment handed it so far, as
                \* recorded where invocations run side by side

vars == <<env, pc, req, res, pk, parsed, promises, calls, given>>

\* What an invocation was handed: process.env when it was invoked, the event its
\* body stream ended with, and the answer each of its outbound calls came back with.
NoAnswer == Answer("none", 0, FALSE, NoData, <<>>)
StreamEvent(kind, data) == [kind |-> kind, data |-> data]
NoEvent == StreamEvent("none", <<>>)
Given(e, event, answers) == [env |-> e, stream |-> event, answers |-> answers]
NothingGiven == Given(Env(Undefined, Undefined, Undefined), NoEvent,
                      [k \in 1..MaxRegions |-> NoAnswer])

Start(ids, envs) ==
    /\ env \in envs
    /\ pc = [r \in ids |-> "idle"]
    /\ req = [r \in ids |-> NoRequest]
    /\ res = [r \in ids |-> FreshResponse]
    /\ pk = [r \in ids |-> NotResolved]
    /\ parsed = [r \in ids |-> NotRead]
    /\ promises = [r \in ids |-> <<>>]
    /\ calls = [r \in ids |-> <<>>]
    /\ given = [r \in ids |-> NothingGiven]

Init == Start({"a"}, Envs)

InitKey == Start({"a"}, KeyEnvs)

\* Invocation r moves on to outcome o.
Becomes(r, o) ==
    /\ pc' = [pc EXCEPT ![r] = o.pc]
    /\ res' = [res EXCEPT ![r] = o.res]
    /\ pk' = [pk EXCEPT ![r] = o.pk]
    /\ parsed' = [parsed EXCEPT ![r] = o.parsed]
    /\ promises' = [promises EXCEPT ![r] = o.promises]
    /\ calls' = [calls EXCEPT ![r] = o.calls]

\* Beacon serving a key another invocation resolved before, instead of resolving it
BeaconCachingKey(r, requests) ==
    /\ pc[r] = "idle"
    /\ \E rq \in requests :
          /\ req' = [req EXCEPT ![r] = rq]
          /\ LET o == beaconStart(env, rq, res[r])
                 cached == {pk[s] : s \in DOMAIN pc \ {r}} \ {NotResolved}
             IN  IF o.pk # NotResolved /\ cached # {}
                 THEN IF pathOf(rq.target) = WellKnownPath
                      THEN Becomes(r, keyResponse(res[r], CHOOSE k \in cached : TRUE))
                      ELSE Becomes(r, indexResponse(res[r], CHOOSE k \in cached : TRUE))
                 ELSE Becomes(r, o)
    /\ UNCHANGED env

\* The runtime invokes beacon(req, res) for one of `requests`.
Beacon(r, requests) ==
    /\ pc[r] = "idle"
    /\ \E rq \in requests :
          /\ req' = [req EXCEPT ![r] = rq]
          /\ Becomes(r, beaconStart(env, rq, res[r]))
    /\ UNCHANGED env

\* parseJson: the 'end' event of the request stream, after it delivered `data`.
StreamEnd(r, data) ==
    /\ pc[r] = "awaitBody"
    /\ IF data = <<>>
       THEN Becomes(r, routePost(req[r], res[r], EmptyBody))
       ELSE IF JSONparse(data).threw
            THEN Becomes(r, Responded(sendJson(res[r], 500, JsonError(MsgInvalidJson)),
                                      NotRead))
            ELSE Becomes(r, routePost(req[r], res[r], JSONparse(data).value))
    /\ UNCHANGED <<env, req>>

\* StreamError answering as for a client input error
StreamErrorAnswering400(r) ==
    /\ pc[r] = "awaitBody"
    /\ Becomes(r, Responded(sendJson(res[r], 400, JsonError(MsgStreamError)), NotRead))
    /\ UNCHANGED <<env, req>>

\* parseJson: the 'error' event of the request stream.
StreamError(r) ==
    /\ pc[r] = "awaitBody"
    /\ Becomes(r, Responded(sendJson(res[r], 500, JsonError(MsgStreamError)), NotRead))
    /\ UNCHANGED <<env, req>>

\* The call of promise i comes back with answer a; when it was the last one pending,
\* Promise.allSettled resolves and the aggregate is sent.
RegionSettles(r, i, a) ==
    /\ pc[r] = "awaitAll"
    /\ i \in 1..Len(promises[r])
    /\ promises[r][i].state = "pending"
    /\ LET ps == [promises[r] EXCEPT ![i] = settleRegion(@, a)]
           cs == [calls[r] EXCEPT ![promises[r][i].call] = answered(@, a)]
       IN  IF allSettled(ps)
           THEN Becomes(r, Outcome("done", respondAggregate(res[r], ps),
                                   pk[r], parsed[r], ps, cs))
           ELSE Becomes(r, Outcome("awaitAll", res[r], pk[r], parsed[r], ps, cs))
    /\ UNCHANGED <<env, req>>

\* TokenSettles answering 200 whatever status the partner answered with
TokenSettlesAnswering200(r, a) ==
    /\ pc[r] = "awaitToken"
    /\ LET cs == [calls[r] EXCEPT ![1] = answered(@, a)]
       IN  IF a.kind = "failure"
           THEN Becomes(r, Outcome("done", sendJson(res[r], 500, JsonError(a.message)),
                                   pk[r], parsed[r], <<>>, cs))
           ELSE Becomes(r, Outcome("done",
                                   sendJson(res[r], 200, JsonData(responseJson(a))),
                                   pk[r], parsed[r], <<>>, cs))
    /\ UNCHANGED <<env, req>>

\* The token call comes back with answer a.
TokenSettles(r, a) ==
    /\ pc[r] = "awaitToken"
    /\ LET cs == [calls[r] EXCEPT ![1] = answered(@, a)]
       IN  IF a.kind = "failure"
           THEN Becomes(r, Outcome("done", sendJson(res[r], 500, JsonError(a.message)),
                                   pk[r], parsed[r], <<>>, cs))
           ELSE Becomes(r, Outcome("done",
                                   sendJson(res[r], a.status, JsonData(responseJson(a))),
                                   pk[r], parsed[r], <<>>, cs))
    /\ UNCHANGED <<env, req>>

Next ==
    \/ \E r \in DOMAIN pc : Beacon(r, Requests) /\ UNCHANGED given
    \/ \E r \in DOMAIN pc, data \in StreamTexts : StreamEnd(r, data) /\ UNCHANGED given
    \/ \E r \in DOMAIN pc : StreamError(r) /\ UNCHANGED given
    \/ \E r \in DOMAIN pc, i \in 1..MaxRegions, a \in PartnerAnswers :
          RegionSettles(r, i, a) /\ UNCHANGED given
    \/ \E r \in DOMAIN pc, a \in PartnerAnswers : TokenSettles(r, a) /\ UNCHANGED given

Spec == Init /\ [][Next]_vars

\* The key resolver alone: every combination of key sources, read by GET requests.
NextKey == \E r \in DOMAIN pc : Beacon(r, KeyRequests) /\ UNCHANGED given

SpecKey == InitKey /\ [][NextKey]_vars

\* ------------------------------------------------------------------ side by side

\* The requests of invocations handled side by side.
PairRequests ==
    {Request("GET", Target(WellKnownPath, FALSE), EmptyBody),
     Request("GET", Target(<<"">>, FALSE), EmptyBody),
     Request("OPTIONS", Target(<<"register">>, FALSE), EmptyBody),
     Request("POST", Target(<<"get-token">>, FALSE),
             Body("object", ClientId, ClientSecret, Undefined, Undefined, NoRegions)),
     Request("POST", Target(<<"get-token">>, FALSE), UnparsedBody),
     Request("POST", Target(<<"register">>, FALSE),
             Body("object", Undefined, Undefined, Domain, Token,
                  Regions("array", <<na, eu>>))),
     Request("POST", Target(<<"verify">>, TRUE),
             Body("object", Undefined, Undefined, Domain, Token,
                  Regions("array", <<xx, na>>)))}

\* process.env is assigned between two steps of the handlers, as the tests do.
SetEnv(e) ==
    /\ e # env
    /\ env' = e
    /\ UNCHANGED <<pc, req, res, pk, parsed, promises, calls, given>>

\* Invocation r is handed x.
Hands(r, x) == given' = [given EXCEPT ![r] = x]

InitPair == Start({"a", "b"}, Envs)

NextPair ==
    \/ \E r \in DOMAIN pc :
          Beacon(r, PairRequests) /\ Hands(r, [given[r] EXCEPT !.env = env])
    \/ \E r \in DOMAIN pc, data \in StreamTexts :
          StreamEnd(r, data) /\ Hands(r, [given[r] EXCEPT !.stream = StreamEvent("end", data)])
    \/ \E r \in DOMAIN pc :
          StreamError(r) /\ Hands(r, [given[r] EXCEPT !.stream = StreamEvent("error", <<>>)])
    \/ \E r \in DOMAIN pc, i \in 1..MaxRegions, a \in PartnerAnswers :
          /\ RegionSettles(r, i, a)
          /\ Hands(r, [given[r] EXCEPT !.answers[promises[r][i].call] = a])
    \/ \E r \in DOMAIN pc, a \in PartnerAnswers :
          TokenSettles(r, a) /\ Hands(r, [given[r] EXCEPT !.answers[1] = a])
    \/ \E e \in Envs : SetEnv(e)

SpecPair == InitPair /\ [][NextPair]_vars

\* ------------------------------------------------------------------ progress

\* The call of promise i of invocation r comes back, with whatever answer.
SettlesRegion(r, i) ==
    \E a \in PartnerAnswers : RegionSettles(r, i, a) /\ UNCHANGED given

\* The token call of invocation r comes back, with whatever answer.
SettlesToken(r) == \E a \in PartnerAnswers : TokenSettles(r, a) /\ UNCHANGED given

\* Every outbound call issued eventually settles; nothing is assumed of the request
\* stream, which the handler only listens to.
CallsSettle ==
    \A r \in {"a"} :
        /\ WF_vars(SettlesToken(r))
        /\ \A i \in 1..MaxRegions : WF_vars(SettlesRegion(r, i))

SpecLive == Init /\ [][Next]_vars /\ CallsSettle

\* ------------------------------------------------------------------ claims

Invocations == DOMAIN pc

Done(r) == pc[r] = "done"

\* Invocation r answered a GET on the well-known key path.
ServedKeyPath(r) ==
    /\ Done(r)
    /\ req[r].method = "GET"
    /\ pathOf(req[r].target) = WellKnownPath

CorsHeaders(r) ==
    /\ res[r].headers["Access-Control-Allow-Origin"] = "*"
    /\ res[r].headers["Access-Control-Allow-Methods"] = "GET, POST, OPTIONS"
    /\ res[r].headers["Access-Control-Allow-Headers"] = "Content-Type, Authorization"

\* Text t is text u without the whitespace around it; Undefined when nothing is left.
NormalFormIn(t, u) ==
    IF \A k \in 1..Len(u) : u[k] \in Whitespace
    THEN t = Undefined
    ELSE /\ t # Undefined
         /\ Len(t) > 0
         /\ t[1] \notin Whitespace
         /\ t[Len(t)] \notin Whitespace
         /\ \E a \in 0..Len(u) :
               /\ \A k \in 1..a : u[k] \in Whitespace
               /\ a + Len(t) <= Len(u)
               /\ \A k \in 1..Len(t) : u[a + k] = t[k]
               /\ \A k \in (a + Len(t) + 1)..Len(u) : u[k] \in Whitespace

\* Text t is text s with its escaped newlines converted and the whitespace around it
\* removed.
IsNormalFormOf(t, s) == NormalFormIn(t, unescapeNewlines(s))

\* Decoded base64 text counts as a source only when it carries a BEGIN marker.
MarkedText(text) == IF hasBeginMarker(text) THEN text ELSE Undefined

\* What source i (1 raw, 2 base64, 3 file) of e holds before normalization; Undefined
\* for a source that is unset or malformed.
SourceText(e, i) ==
    IF i = 1 THEN e.TESLA_PUBLIC_KEY
    ELSE IF i = 2
    THEN IF e.TESLA_PUBLIC_KEY_BASE64 = Undefined THEN Undefined
         ELSE MarkedText(decodeBase64(e.TESLA_PUBLIC_KEY_BASE64))
    ELSE IF e.TESLA_PUBLIC_KEY_FILE = PathKeyFile THEN FilePem
    ELSE IF e.TESLA_PUBLIC_KEY_FILE = PathBlankFile THEN FileBlank
    ELSE Undefined

YieldedBy(text, t) == t # Undefined /\ text # Undefined /\ IsNormalFormOf(t, text)

\* Source i of e yields key t.
Yields(e, i, t) == YieldedBy(SourceText(e, i), t)

NothingIn(text) == text = Undefined \/ IsNormalFormOf(Undefined, text)

YieldsNothing(e, i) == NothingIn(SourceText(e, i))

\* C1: what resolvePublicKey returns is the normal form of the first source, in the
\* order raw, base64, file, that yields one; sources that are unset, empty once
\* normalized, or malformed are passed over, and when none yields a key it is the
\* normal form of the compiled-in key.
C1_ResolverPriority ==
    \A r \in Invocations :
        pk[r] # NotResolved =>
            \/ \E i \in 1..3 :
                  /\ Yields(env, i, pk[r])
                  /\ \A j \in 1..(i - 1) : YieldsNothing(env, j)
            \/ /\ \A i \in 1..3 : YieldsNothing(env, i)
               /\ pk[r] # Undefined
               /\ IsNormalFormOf(pk[r], IN_SOURCE_PUBLIC_KEY)

\* C1 witness: the raw source is blank once normalized, the base64 source decodes to
\* text without a marker, and the key is the file's, trimmed.
C1_Witness ==
    /\ env = Env(RawBlank, B64NoMarker, PathKeyFile)
    /\ ServedKeyPath("a")
    /\ pk["a"] = <<"-","-","-","-","-","B","E","G","I","N"," ","F","-","-","-","-","-","\n","Z","\n","-","-","-","-","-","E","N","D"," ","F","-","-","-","-","-">>

\* C2: with a key source set, GET on the well-known path answers 200 as
\* application/x-pem-file with exactly the key the resolver returned, and issues no
\* outbound call.
C2_KeyServedVerbatim ==
    \A r \in Invocations :
        (/\ ServedKeyPath(r)
         /\ \E i \in 1..3 : SourceText(env, i) # Undefined)
        => /\ res[r].status = 200
           /\ res[r].headers["Content-Type"] = "application/x-pem-file"
           /\ res[r].body.type = "text"
           /\ pk[r] # Undefined
           /\ res[r].body.text = pk[r]
           /\ res[r].sends = 1
           /\ calls[r] = <<>>

\* C2 witness: only the base64 source is set; the body is its decoded key, with the
\* escaped newline converted.
C2_Witness ==
    /\ env = Env(Undefined, B64Pem, Undefined)
    /\ ServedKeyPath("a")
    /\ req["a"].target.query
    /\ res["a"].status = 200
    /\ res["a"].body.text = <<"-","-","-","-","-","B","E","G","I","N"," ","E","C"," ","K","E","Y","-","-","-","-","-","\n","Q","\n","-","-","-","-","-","E","N","D"," ","E","C"," ","K","E","Y","-","-","-","-","-">>

\* No key source of e yields a key, as the resolver computes it.
NoSourceYields(e) ==
    /\ normalizePem(e.TESLA_PUBLIC_KEY) = Undefined
    /\ tryDecodeBase64(e.TESLA_PUBLIC_KEY_BASE64) = Undefined
    /\ tryReadFile(e.TESLA_PUBLIC_KEY_FILE) = Undefined

\* The compiled-in key without the line breaks around it.
FallbackKey == SubSeq(IN_SOURCE_PUBLIC_KEY, 2, Len(IN_SOURCE_PUBLIC_KEY) - 1)

\* C3 as stated: when no source yields a key, GET on the well-known path answers 404.
C3_NoKeyAnswers404 ==
    \A r \in Invocations :
        (ServedKeyPath(r) /\ NoSourceYields(env)) => res[r].status = 404

\* C3 amended: when no source yields a key, GET on the well-known path answers 200
\* with the compiled-in key; the 404 "Public key not found" is sent under no
\* configuration.
C3_NoKeyServesFallback ==
    \A r \in Invocations :
        ServedKeyPath(r) =>
            /\ res[r].status # 404
            /\ NoSourceYields(env) =>
                  /\ res[r].status = 200
                  /\ res[r].headers["Content-Type"] = "application/x-pem-file"
                  /\ res[r].body.type = "text"
                  /\ res[r].body.text = FallbackKey

\* C3 witness: all three sources are unset, empty or malformed, and the key path was
\* answered.
C3_Witness ==
    /\ env = Env(<<>>, B64Garbage, PathMissing)
    /\ ServedKeyPath("a")
    /\ res["a"].status = 200

\* Invocation r handles a POST whose body parsed to an object.
PostedObject(r) == req[r].method = "POST" /\ parsed[r].kind = "object"

OnPath(r, name) == endsWith(pathOf(req[r].target), name)

\* Invocation r answered 400 with {error: message} and issued no outbound call.
Answered400(r, message) ==
    /\ Done(r)
    /\ res[r].status = 400
    /\ res[r].headers["Content-Type"] = "application/json"
    /\ res[r].body.type = "json"
    /\ res[r].body.json.t = "error"
    /\ res[r].body.json.error = message
    /\ res[r].sends = 1
    /\ calls[r] = <<>>

\* C4: a POST to /get-token without clientId or clientSecret, and a POST to /register
\* or /verify without domain or token or with regions that is no array or an empty
\* one, is answered 400 with the documented message, and no outbound call is issued.
C4_MissingFieldsAnswer400 ==
    \A r \in Invocations :
        /\ (/\ PostedObject(r)
            /\ OnPath(r, "get-token")
            /\ (parsed[r].clientId \in {Undefined, <<>>}
                \/ parsed[r].clientSecret \in {Undefined, <<>>}))
           => Answered400(r, <<"c","l","i","e","n","t","I","d"," ","a","n","d"," ","c","l","i","e","n","t","S","e","c","r","e","t"," ","a","r","e"," ","r","e","q","u","i","r","e","d">>)
        /\ (/\ PostedObject(r)
            /\ (OnPath(r, "register") \/ OnPath(r, "verify"))
            /\ \/ parsed[r].domain \in {Undefined, <<>>}
               \/ parsed[r].token \in {Undefined, <<>>}
               \/ parsed[r].regions.type # "array"
               \/ parsed[r].regions.items = <<>>)
           => Answered400(r, <<"D","o","m","a","i","n",","," ","t","o","k","e","n",","," ","a","n","d"," ","r","e","g","i","o","n","s"," ","a","r","e"," ","r","e","q","u","i","r","e","d">>)

\* C4 witness: /verify with domain and token but an empty regions array.
C4_Witness ==
    /\ req["a"].method = "POST"
    /\ OnPath("a", "verify")
    /\ parsed["a"].domain = Domain
    /\ parsed["a"].token = Token
    /\ parsed["a"].regions = Regions("array", <<>>)
    /\ res["a"].status = 400
    /\ calls["a"] = <<>>

\* Invocation r handles a register/verify request that passed the field checks.
ValidFanOut(r) ==
    /\ PostedObject(r)
    /\ (OnPath(r, "register") \/ OnPath(r, "verify"))
    /\ parsed[r].domain \notin {Undefined, <<>>}
    /\ parsed[r].token \notin {Undefined, <<>>}
    /\ parsed[r].regions.type = "array"
    /\ parsed[r].regions.items # <<>>

Requested(r) == parsed[r].regions.items

Entries(r) == res[r].body.json.items

InTable(region) == region \in {na, eu}

\* The outbound call issued for the i-th requested region, a region of the table:
\* calls are issued in the order of the request.
CallOf(r, i) == calls[r][Cardinality({j \in 1..i : InTable(Requested(r)[j])})]

Is2xx(call) == call.state = "returned" /\ call.status \in 200..299

\* Entry i of the aggregate is the outcome of the i-th requested region.
EntryIsOutcomeOf(r, i) ==
    IF ~InTable(Requested(r)[i])
    THEN /\ Entries(r)[i].status = "rejected"
         /\ Entries(r)[i].reason.message = <<"I","n","v","a","l","i","d"," ","r","e","g","i","o","n",":"," ">> \o Requested(r)[i]
    ELSE /\ CallOf(r, i).url.base =
               (IF Requested(r)[i] = na
                THEN "https://fleet-api.prd.na.vn.cloud.tesla.com"
                ELSE "https://fleet-api.prd.eu.vn.cloud.tesla.com")
         /\ Entries(r)[i].status = (IF Is2xx(CallOf(r, i)) THEN "fulfilled" ELSE "rejected")
         /\ Is2xx(CallOf(r, i)) =>
               /\ Entries(r)[i].value.url = CallOf(r, i).url
               /\ Entries(r)[i].value.region = Requested(r)[i]
         /\ CallOf(r, i).state = "failed" =>
               Entries(r)[i].reason.message = NetworkFailureMessage
         /\ (CallOf(r, i).state = "returned" /\ CallOf(r, i).status = 403) =>
               Entries(r)[i].reason.message =
                   <<"A","P","I"," ","e","r","r","o","r"," ","f","o","r"," ">> \o Requested(r)[i] \o <<":"," ","d","e","n","i","e","d">>

\* C5: the aggregate of a valid register/verify request has one entry per element of
\* regions, and entry i is the outcome of the i-th requested region, in whatever
\* order the calls came back.
C5_OneEntryPerRegionInOrder ==
    \A r \in Invocations :
        (ValidFanOut(r) /\ Done(r)) =>
            /\ res[r].body.type = "json"
            /\ res[r].body.json.t = "array"
            /\ Len(Entries(r)) = Len(Requested(r))
            /\ \A i \in 1..Len(Requested(r)) : EntryIsOutcomeOf(r, i)

\* C5 witness: na, xx, eu were requested; na was refused, eu succeeded.
C5_Witness ==
    /\ Done("a")
    /\ ValidFanOut("a")
    /\ Requested("a") = <<na, xx, eu>>
    /\ Len(Entries("a")) = 3
    /\ Entries("a")[1].status = "rejected"
    /\ Entries("a")[2].status = "rejected"
    /\ Entries("a")[3].status = "fulfilled"
    /\ Entries("a")[3].value.url.base = "https://fleet-api.prd.eu.vn.cloud.tesla.com"

\* C6 as stated: every entry of the aggregate carries, in value.region, the region
\* code it was requested for, fulfilled or rejected.
C6_EntriesTaggedWithRegion ==
    \A r \in Invocations :
        (ValidFanOut(r) /\ Done(r)) =>
            \A i \in 1..Len(Entries(r)) :
                i <= Len(Requested(r)) /\ Entries(r)[i].value.region = Requested(r)[i]

\* What came of the i-th requested region, a region of the table, once its call is
\* back: its own call decides its entry.
OwnOutcome(r, i) ==
    \/ /\ CallOf(r, i).state = "returned"
       /\ CallOf(r, i).status \in 200..299
       /\ Entries(r)[i].status = "fulfilled"
       /\ Entries(r)[i].value.region = Requested(r)[i]
    \/ /\ CallOf(r, i).state = "returned"
       /\ CallOf(r, i).status \notin 200..299
       /\ Entries(r)[i].status = "rejected"
    \/ /\ CallOf(r, i).state = "failed"
       /\ Entries(r)[i].status = "rejected"

\* C7: the per-region calls of one request are independent: the call of every
\* requested region of the table is issued whatever became of the others, stays in
\* flight until it comes back itself, and its entry reports its own outcome.
C7_RegionsIndependent ==
    \A r \in Invocations :
        ValidFanOut(r) =>
            /\ Len(calls[r]) = Cardinality({j \in 1..Len(Requested(r)) :
                                              InTable(Requested(r)[j])})
            /\ Len(promises[r]) = Len(Requested(r))
            /\ \A i \in 1..Len(Requested(r)) :
                  InTable(Requested(r)[i]) =>
                      /\ (promises[r][i].state = "pending")
                            = (CallOf(r, i).state = "inflight")
                      /\ Done(r) => OwnOutcome(r, i)

\* C7 witness: na failed at network level and eu, requested after it, is fulfilled.
C7_Witness ==
    /\ Done("a")
    /\ ValidFanOut("a")
    /\ Requested("a") = <<na, eu>>
    /\ calls["a"][1].state = "failed"
    /\ Entries("a")[1].status = "rejected"
    /\ Entries("a")[2].status = "fulfilled"

RegionFailed(r, i) ==
    \/ ~InTable(Requested(r)[i])
    \/ CallOf(r, i).state = "failed"
    \/ (CallOf(r, i).state = "returned" /\ CallOf(r, i).status \notin 200..299)

\* C8: a valid register/verify request is answered 200; each region that failed
\* (refused by the partner, failed at network level, or not in the table) is a
\* rejected entry with a message inside the aggregate.
C8_RegionFailuresInside200 ==
    \A r \in Invocations :
        (ValidFanOut(r) /\ Done(r)) =>
            /\ res[r].status = 200
            /\ res[r].sends = 1
            /\ res[r].body.json.t = "array"
            /\ \A i \in 1..Len(Requested(r)) :
                  RegionFailed(r, i) =>
                      /\ i <= Len(Entries(r))
                      /\ Entries(r)[i].status = "rejected"
                      /\ Entries(r)[i].reason.message \notin {Undefined, <<>>}

\* C8 witness: all three kinds of failure in one request, answered 200.
C8_Witness ==
    /\ Done("a")
    /\ ValidFanOut("a")
    /\ Requested("a") = <<na, eu, xx>>
    /\ calls["a"][1].state = "returned"
    /\ calls["a"][1].status = 403
    /\ calls["a"][2].state = "failed"
    /\ res["a"].status = 200
    /\ \A i \in 1..3 : Entries("a")[i].status = "rejected"

\* C9: an OPTIONS request, on any path and with any body, is answered 204 with an
\* empty body and the three CORS headers; the body is not read, the key is not
\* resolved and no outbound call is issued.
C9_OptionsAnswers204 ==
    \A r \in Invocations :
        req[r].method = "OPTIONS" =>
            /\ Done(r)
            /\ res[r].status = 204
            /\ res[r].body.type = "text"
            /\ res[r].body.text = <<>>
            /\ CorsHeaders(r)
            /\ res[r].sends = 1
            /\ parsed[r].kind = "unread"
            /\ pk[r] = NotResolved
            /\ calls[r] = <<>>
            /\ promises[r] = <<>>

\* C9 witness: OPTIONS on /register with a body that would be a valid registration.
C9_Witness ==
    /\ req["a"].method = "OPTIONS"
    /\ OnPath("a", "register")
    /\ req["a"].body.domain = Domain
    /\ req["a"].body.token = Token
    /\ req["a"].body.regions = Regions("array", <<na, eu>>)
    /\ res["a"].status = 204

\* C10: every response sent carries the three CORS headers.
C10_EveryResponseHasCors ==
    \A r \in Invocations : res[r].sends > 0 => CorsHeaders(r)

\* C10 witness: the 500 sent when the token call failed at network level.
C10_Witness ==
    /\ Done("a")
    /\ OnPath("a", "get-token")
    /\ res["a"].status = 500
    /\ calls["a"] # <<>>
    /\ CorsHeaders("a")

\* ------------------------------------------------------------------ the page

\* The text a browser shows for page text h: each entity is its character again.
Rendered(h) ==
    [k \in 1..Len(h) |->
        IF h[k] = "&amp;" THEN "&"
        ELSE IF h[k] = "&lt;" THEN "<"
        ELSE IF h[k] = "&gt;" THEN ">"
        ELSE IF h[k] = "&quot;" THEN "\""
        ELSE IF h[k] = "&#39;" THEN "'"
        ELSE h[k]]

MarkupChars == {"&", "<", ">", "\"", "'"}

\* Invocation r handles a GET on / or on /index.html.
GetsIndex(r) ==
    /\ req[r].method = "GET"
    /\ pathOf(req[r].target) \in {<<"">>, <<"index.html">>}

\* C11: a GET on / or on /index.html is answered 200 as text/html with the page
\* titled 'Icewheel Energy Key Beacon' whose key block shows the key resolved from
\* the configuration of that request, under every key configuration, and no
\* outbound call is issued.
C11_IndexPageEmbedsKey ==
    \A r \in Invocations :
        GetsIndex(r) =>
            /\ Done(r)
            /\ res[r].status = 200
            /\ res[r].headers["Content-Type"] = "text/html; charset=utf-8"
            /\ res[r].sends = 1
            /\ res[r].body.type = "html"
            /\ res[r].body.html.title = "Icewheel Energy Key Beacon"
            /\ pk[r] = resolvePublicKey(env)
            /\ res[r].body.html.configured
            /\ Rendered(res[r].body.html.key) = pk[r]
            /\ \A k \in 1..Len(res[r].body.html.key) :
                  res[r].body.html.key[k] \notin MarkupChars
            /\ calls[r] = <<>>
            /\ promises[r] = <<>>

\* C11 witness: the page around a configured key that holds markup characters.
C11_Witness ==
    /\ GetsIndex("a")
    /\ Done("a")
    /\ env.TESLA_PUBLIC_KEY = RawMarkup
    /\ pk["a"] = RawMarkup
    /\ res["a"].body.html.key # RawMarkup
    /\ Rendered(res["a"].body.html.key) = RawMarkup

\* ------------------------------------------------------------------ routing

\* The method and path of invocation r are one of the listed HTTP surface.
Listed(r) ==
    LET path == pathOf(req[r].target)
    IN  \/ req[r].method = "OPTIONS"
        \/ req[r].method = "GET" /\ path \in {<<"">>, <<"index.html">>, WellKnownPath}
        \/ req[r].method = "POST" /\ path \in {<<"get-token">>, <<"register">>, <<"verify">>}

AnsweredNotFound(r) ==
    /\ res[r].status = 404
    /\ res[r].body.type = "text"
    /\ res[r].body.text = MsgNotFound
    /\ res[r].sends = 1

\* C12: a request whose method and path are not one of the listed HTTP surface is
\* answered 404 with body 'Not Found', whatever else it carries, and issues no
\* outbound call.
C12_UnlistedAnswers404 ==
    \A r \in Invocations :
        (Done(r) /\ ~Listed(r)) => (AnsweredNotFound(r) /\ calls[r] = <<>>)

\* ------------------------------------------------------------------ the token proxy

\* Invocation r handles a POST on /get-token.
PostsGetToken(r) == req[r].method = "POST" /\ pathOf(req[r].target) = <<"get-token">>

HasCredentials(r) ==
    /\ parsed[r].kind = "object"
    /\ Truthy(parsed[r].clientId)
    /\ Truthy(parsed[r].clientSecret)

\* The one outbound call of r is the token request carrying r's credentials.
OneTokenCall(r) ==
    /\ Len(calls[r]) = 1
    /\ calls[r][1].url = Url(TESLA_AUTH_URL, "", Undefined)
    /\ calls[r][1].method = "POST"
    /\ calls[r][1].form = Form(parsed[r].clientId, parsed[r].clientSecret, Undefined)

\* The response of r is the status and JSON body of a partner answer its call returned
\* with, an empty object standing for a body that is not JSON.
ProxiesPartner(r) ==
    /\ calls[r][1].state = "returned"
    /\ \E a \in PartnerAnswers :
          /\ a.kind = "response"
          /\ a.status = calls[r][1].status
          /\ res[r].status = a.status
          /\ res[r].headers["Content-Type"] = "application/json"
          /\ res[r].body.type = "json"
          /\ res[r].body.json = JsonData(IF a.json THEN a.data ELSE DataEmpty)
    /\ res[r].sends = 1

Answered500(r, message) ==
    /\ res[r].status = 500
    /\ res[r].headers["Content-Type"] = "application/json"
    /\ res[r].body.type = "json"
    /\ res[r].body.json = JsonError(message)
    /\ res[r].sends = 1

\* C13 as stated: a finished POST on /get-token either had both credentials, issued
\* one call to the token endpoint and answered with the partner's status and JSON
\* body, or was answered the 400 for missing credentials.
C13_TokenProxiedOr400 ==
    \A r \in Invocations :
        (PostsGetToken(r) /\ Done(r)) =>
            \/ HasCredentials(r) /\ OneTokenCall(r) /\ ProxiesPartner(r)
            \/ Answered400(r, MsgTokenRequired)

\* C13: a POST on /get-token with both credentials issues exactly one outbound call,
\* to the token endpoint; once the partner responds it is answered with the partner's
\* status and JSON body (an empty object for a body that is not JSON), and when the
\* call itself fails it is answered 500 with the failure's message. Without both
\* credentials an object body is answered 400 and no call is issued.
C13_TokenProxied ==
    \A r \in Invocations :
        (PostsGetToken(r) /\ parsed[r].kind = "object") =>
            IF HasCredentials(r)
            THEN /\ OneTokenCall(r)
                 /\ pc[r] \in {"awaitToken", "done"}
                 /\ pc[r] = "awaitToken" =>
                        (calls[r][1].state = "inflight" /\ res[r].sends = 0)
                 /\ Done(r) =>
                        \/ ProxiesPartner(r)
                        \/ /\ calls[r][1].state = "failed"
                           /\ Answered500(r, NetworkFailureMessage)
            ELSE Answered400(r, MsgTokenRequired)

\* C13 witness: the partner's 403 and its JSON body passed on.
C13_Witness ==
    /\ PostsGetToken("a")
    /\ Done("a")
    /\ HasCredentials("a")
    /\ ProxiesPartner("a")
    /\ res["a"].status = 403
    /\ res["a"].body.json = JsonData(DataDenied)

\* ------------------------------------------------------------------ errors

\* Invocation r handles a POST on one of the three proxy routes.
PostsProxyRoute(r) ==
    /\ req[r].method = "POST"
    /\ (OnPath(r, "get-token") \/ OnPath(r, "register") \/ OnPath(r, "verify"))

\* parseJson rejected: the body was left on the stream and no value came of it.
BodyRejected(r) ==
    req[r].method = "POST" /\ req[r].body.kind = "unparsed" /\ Done(r) /\ parsed[r].kind = "unread"

\* The token call of r raised instead of returning.
TokenCallRaised(r) ==
    PostsGetToken(r) /\ Done(r) /\ calls[r] # <<>> /\ calls[r][1].state = "failed"

\* The handler of r raised: parseJson rejected, the body destructured was null, or
\* the token call raised.
Raised(r) ==
    \/ BodyRejected(r)
    \/ Done(r) /\ PostsProxyRoute(r) /\ parsed[r].kind = "null"
    \/ TokenCallRaised(r)

Answered500WithMessage(r) ==
    /\ res[r].status = 500
    /\ res[r].headers["Content-Type"] = "application/json"
    /\ res[r].body.type = "json"
    /\ res[r].body.json.t = "error"
    /\ res[r].body.json.error # <<>>
    /\ res[r].sends = 1

\* C14 as stated: a body that is not valid JSON, a body that parses to a non-object
\* and an exception from the token call are each answered 500 with {error: message}.
C14_NonObjectAnswers500 ==
    \A r \in Invocations :
        (\/ Raised(r)
         \/ Done(r) /\ PostsProxyRoute(r) /\ parsed[r].kind \in {"null", "scalar"})
            => Answered500WithMessage(r)

\* C14: every error raised while a request is handled (the body stream failing or
\* not holding valid JSON, a body that is JSON null on a proxy route, the token call
\* raising) is answered 500 with {error: message}; an invocation only ever waits or
\* has responded; and a body without the required fields, be it an object or a
\* JSON number, raises nothing and is answered 400.
C14_RaisedErrorsAnswer500 ==
    \A r \in Invocations :
        /\ pc[r] \in {"idle", "awaitBody", "awaitToken", "awaitAll", "done"}
        /\ BodyRejected(r) =>
              (Answered500(r, MsgInvalidJson) \/ Answered500(r, MsgStreamError))
        /\ (Done(r) /\ PostsProxyRoute(r) /\ parsed[r].kind = "null") =>
              (\/ Answered500(r, MsgDestructureToken)
               \/ Answered500(r, MsgDestructureRegister))
        /\ TokenCallRaised(r) => Answered500(r, NetworkFailureMessage)
        /\ (Done(r) /\ PostsProxyRoute(r) /\ parsed[r].kind \in {"object", "scalar"}) =>
              /\ (OnPath(r, "get-token") /\ missingCredentials(parsed[r])) =>
                    Answered400(r, MsgTokenRequired)
              /\ (~OnPath(r, "get-token") /\ missingRegistration(parsed[r])) =>
                    Answered400(r, MsgRegisterRequired)

\* C14 witness: a body that was not valid JSON, answered 500 with parseJson's message.
C14_Witness ==
    /\ BodyRejected("a")
    /\ Answered500("a", MsgInvalidJson)
    /\ Raised("a")

\* ------------------------------------------------------------------ the join

InFlight(r) == {k \in 1..Len(calls[r]) : calls[r][k].state = "inflight"}

Pending(r) == {i \in 1..Len(promises[r]) : promises[r][i].state = "pending"}

\* C15: a register/verify request is answered only once every per-region call it
\* issued has settled: while one call is still in flight nothing has been sent,
\* whatever the other calls have done, and a response sent implies no call in flight
\* and no promise pending.
C15_ResponseAfterAllSettled ==
    \A r \in Invocations :
        ValidFanOut(r) =>
            /\ (InFlight(r) # {} \/ Pending(r) # {}) =>
                  (res[r].sends = 0 /\ pc[r] = "awaitAll")
            /\ res[r].sends > 0 => (InFlight(r) = {} /\ Pending(r) = {} /\ Done(r))
            /\ Cardinality(InFlight(r)) = Cardinality(Pending(r))

\* C15 witness: two regions, the first call back and the second still in flight,
\* nothing sent.
C15_Witness ==
    /\ ValidFanOut("a")
    /\ Len(calls["a"]) = 2
    /\ calls["a"][1].state # "inflight"
    /\ calls["a"][2].state = "inflight"
    /\ promises["a"][1].state = "fulfilled"
    /\ res["a"].sends = 0

\* C16: a register or verify request never has more than two outbound partner calls
\* in flight, nor more than two issued in all, whatever its regions array holds.
C16_AtMostTwoCalls ==
    \A r \in Invocations :
        (req[r].method = "POST" /\ (OnPath(r, "register") \/ OnPath(r, "verify"))) =>
            /\ Len(calls[r]) <= 2
            /\ Cardinality(InFlight(r)) <= 2

\* ------------------------------------------------------------------ handled alone

\* An invocation handled alone, after its body stream ended with `event`.
AloneAfterStream(rq, o, event) ==
    IF o.pc # "awaitBody" \/ event.kind = "none" THEN o
    ELSE IF event.kind = "error"
    THEN Responded(sendJson(o.res, 500, JsonError(MsgStreamError)), NotRead)
    ELSE IF event.data = <<>> THEN routePost(rq, o.res, EmptyBody)
    ELSE IF JSONparse(event.data).threw
    THEN Responded(sendJson(o.res, 500, JsonError(MsgInvalidJson)), NotRead)
    ELSE routePost(rq, o.res, JSONparse(event.data).value)

\* ... after its token call came back with a.
AloneAfterToken(o, a) ==
    IF o.pc # "awaitToken" \/ a.kind = "none" THEN o
    ELSE IF a.kind = "failure"
    THEN [o EXCEPT !.pc = "done", !.res = sendJson(o.res, 500, JsonError(a.message))]
    ELSE [o EXCEPT !.pc = "done",
                   !.res = sendJson(o.res, a.status,
                                    JsonData(IF a.json THEN a.data ELSE DataEmpty))]

\* The promises of o, each settled with the answer its call came back with, taken
\* in the order of the request.
AloneSettled(o, answers) ==
    [i \in 1..Len(o.promises) |->
        IF o.promises[i].state = "pending" /\ answers[o.promises[i].call].kind # "none"
        THEN settleRegion(o.promises[i], answers[o.promises[i].call])
        ELSE o.promises[i]]

\* ... after its per-region calls came back with `answers`.
AloneAfterRegions(o, ps) ==
    IF o.pc # "awaitAll" THEN o
    ELSE IF \A i \in 1..Len(ps) : ps[i].state # "pending"
    THEN [o EXCEPT !.pc = "done", !.promises = ps,
                   !.res = sendJson(o.res, 200, JsonArray(formatted(ps)))]
    ELSE [o EXCEPT !.promises = ps]

AloneAfterCalls(o, answers) ==
    IF o.pc = "awaitToken" THEN AloneAfterToken(o, answers[1])
    ELSE IF o.pc = "awaitAll" THEN AloneAfterRegions(o, AloneSettled(o, answers))
    ELSE o

\* Request rq handled alone under what invocation g was handed: its configuration
\* at invocation, its stream event and the answers of its calls.
HandledAlone(rq, g) ==
    AloneAfterCalls(AloneAfterStream(rq, beaconStart(g.env, rq, FreshResponse), g.stream),
                    g.answers)

\* C17: however two invocations interleave, and whenever the configuration changes,
\* each invocation stands where it would stand, with the response it would have
\* sent, had it been handled alone with the configuration of its invocation and the
\* same stream event and partner answers; the key it served is the one resolved from
\* the configuration at its invocation.
C17_HandledAsIfAlone ==
    \A r \in Invocations :
        pc[r] # "idle" =>
            /\ pc[r] = HandledAlone(req[r], given[r]).pc
            /\ res[r] = HandledAlone(req[r], given[r]).res
            /\ pk[r] # NotResolved => pk[r] = resolvePublicKey(given[r].env)

\* C17 witness: two GETs of the key, the configuration changed in between and the
\* second answered with the new key, while the first keeps its own answer.
C17_Witness ==
    /\ ServedKeyPath("a")
    /\ ServedKeyPath("b")
    /\ given["a"].env # given["b"].env
    /\ res["a"].body.text = resolvePublicKey(given["a"].env)
    /\ res["b"].body.text = resolvePublicKey(given["b"].env)
    /\ res["a"].body.text # res["b"].body.text

\* ------------------------------------------------------------------ one response

\* C18: every invocation sends at most one response, and, its outbound calls
\* settling, every invocation eventually has sent exactly one.
C18_ExactlyOneResponse ==
    /\ [](\A r \in Invocations : res[r].sends <= 1)
    /\ \A r \in {"a"} : (pc[r] # "idle") ~> (Done(r) /\ res[r].sends = 1)
====
